---- MODULE Spec2Model ----
(***************************************************************************)
(* FPC1020 fingerprint sensor platform driver                              *)
(* (drivers/input/misc/fpc1020_tee.c).                                     *)
(*                                                                         *)
(* The model covers the driver's control plane: the threaded interrupt     *)
(* handler (wake lock, sysfs notification, KEY_FINGERPRINT pair), the      *)
(* framebuffer notifier and the pm_work item it queues, the sysfs          *)
(* attributes report_home and screen_state, and the order of the steps of  *)
(* fpc1020_probe.  Kernel services the driver calls (input core, wake      *)
(* lock timer, workqueue, sysfs) are modelled by their effect on the state *)
(* the driver's behaviour is observed through.                             *)
(***************************************************************************)
EXTENDS Integers, Sequences, FiniteSets, TLC

VARIABLES
    (* struct fpc1020_data and what probe registers *)
    probe_pc,            \* position of fpc1020_probe
    rc,                  \* probe's rc
    input_registered,    \* fpc1020->input_dev is a registered input device
    fb_registered,       \* fb_notif is on the framebuffer notifier chain
    irq_requested,       \* the threaded IRQ is installed
    wl_initialised,      \* wake_lock_init(&ttw_wl) has run
    sysfs_created,       \* attribute_group exists under the device
    data_freed,          \* devm released fpc1020_data (probe failed)
    fault,               \* "none", or the kernel fault an operation ran into
    screen_state,        \* fpc1020->screen_state
    ignor_home_for_ESD,  \* module parameter
    (* sensor interrupt *)
    irq_latched,         \* an edge is waiting for the IRQ thread
    h_pc,                \* position of fpc1020_irq_handler
    h_ss,                \* !screen_state as the handler read it (-1: not read)
    h_wl,                \* timeout this invocation passed to wake_lock_timeout
    h_notes,             \* sysfs_notify calls on 'irq' this invocation made
    h_emit,              \* input calls this invocation made
    h_ret,               \* value the last invocation returned
    (* ttw_wl *)
    wl_remaining,        \* ms until the wake lock's timer expires, 0: not held
    since_irq,           \* ms since the last wake_lock_timeout call (saturating)
    (* framebuffer notifier and pm_work *)
    fb_pc,               \* position of fb_notifier_callback
    fb_ret,              \* value the last callback returned
    work_pending,        \* WORK_STRUCT_PENDING of pm_work
    w_pc,                \* position of fpc1020_suspend_resume
    w_ss,                \* screen_state as the work function read it
    procs,               \* task list: sequence of [comm, nice]
    ss_notified,         \* "none", "stale" (state written, not yet notified), "fresh"
    (* sysfs *)
    r_ret,               \* value the last report_home_set returned
    r_emit,              \* input calls the last report_home_set made
    key_down             \* input core: keys of input_dev currently pressed (dev->key)

vars == <<probe_pc, rc, input_registered, fb_registered, irq_requested,
          wl_initialised, sysfs_created, data_freed, fault,
          screen_state, ignor_home_for_ESD, irq_latched, h_pc, h_ss,
          h_wl, h_notes, h_emit, h_ret, wl_remaining, since_irq, fb_pc, fb_ret,
          work_pending, w_pc, w_ss, procs, ss_notified, r_ret, r_emit,
          key_down>>

probeVars == <<probe_pc, rc, input_registered, fb_registered, irq_requested,
               wl_initialised, sysfs_created, data_freed>>
irqVars == <<irq_latched, h_pc, h_ss, h_wl, h_notes, h_emit, h_ret>>
wlVars == <<wl_remaining, since_irq>>
fbVars == <<fb_pc, fb_ret>>
workVars == <<work_pending, w_pc, w_ss, procs, ss_notified>>
homeVars == <<r_ret, r_emit>>

-----------------------------------------------------------------------------
(* Bounds of the model *)
TickMs == 500

(* Program constants *)
FPC_TTW_HOLD_TIME == 1000
MIN_NICE == -20
EINVAL == 22
ENOMEM == 12

NUL == "\\0"

KEY_FINGERPRINT == "KEY_FINGERPRINT"
KEY_HOME == "KEY_HOME"
KEY_F2 == "KEY_F2"
IRQ_HANDLED == "IRQ_HANDLED"

FB_EARLY_EVENT_BLANK == "FB_EARLY_EVENT_BLANK"
FB_EVENT_BLANK == "FB_EVENT_BLANK"
FB_BLANK_UNBLANK == "FB_BLANK_UNBLANK"
FB_BLANK_NORMAL == "FB_BLANK_NORMAL"
FB_BLANK_POWERDOWN == "FB_BLANK_POWERDOWN"

FbEvents == {FB_EARLY_EVENT_BLANK, FB_EVENT_BLANK}
FbBlanks == {FB_BLANK_UNBLANK, FB_BLANK_NORMAL, FB_BLANK_POWERDOWN}

-----------------------------------------------------------------------------
(* Input core: the calls the driver makes on input_dev *)
ReportKey(code, value) == [type |-> "EV_KEY", code |-> code, value |-> value]
InputSync == [type |-> "EV_SYN", code |-> "SYN_REPORT", value |-> 0]

(* The keys the input core holds as pressed after the call ev *)
InputEvent(keys, ev) ==
    IF ev.type # "EV_KEY" THEN keys
    ELSE IF ev.value # 0 THEN keys \cup {ev.code}
    ELSE keys \ {ev.code}

RECURSIVE InputEvents(_, _)
InputEvents(keys, evs) ==
    IF evs = <<>> THEN keys
    ELSE InputEvents(InputEvent(keys, Head(evs)), Tail(evs))

-----------------------------------------------------------------------------
(* C strings as sequences of characters; reading past the end yields NUL *)
CharAt(s, i) == IF i <= Len(s) THEN s[i] ELSE NUL

RECURSIVE StrNCmpFrom(_, _, _, _)
StrNCmpFrom(s1, s2, i, n) ==
    IF i > n THEN 0
    ELSE IF CharAt(s1, i) # CharAt(s2, i) THEN 1
    ELSE IF CharAt(s1, i) = NUL THEN 0
    ELSE StrNCmpFrom(s1, s2, i + 1, n)

(* strncmp(s1, s2, n): 0 when equal over the first n characters, else non-zero *)
StrNCmp(s1, s2, n) == StrNCmpFrom(s1, s2, 1, n)

RECURSIVE MemCmpFrom(_, _, _, _)
MemCmpFrom(a, b, i, n) ==
    IF i > n THEN 0
    ELSE IF CharAt(a, i) # CharAt(b, i) THEN 1
    ELSE MemCmpFrom(a, b, i + 1, n)

(* memcmp(a, b, n) on NUL padded buffers *)
MemCmp(a, b, n) == MemCmpFrom(a, b, 1, n)

S_down == <<"d", "o", "w", "n">>
S_up == <<"u", "p">>
S_timeout == <<"t", "i", "m", "e", "o", "u", "t">>
S_fingerprintd == <<"f", "i", "n", "g", "e", "r", "p", "r", "i", "n", "t", "d">>

DigitChar(d) == <<"0", "1", "2", "3", "4", "5", "6", "7", "8", "9">>[d + 1]

RECURSIVE FormatNat(_)
FormatNat(n) == IF n < 10 THEN <<DigitChar(n)>>
                ELSE FormatNat(n \div 10) \o <<DigitChar(n % 10)>>

(* scnprintf(buffer, PAGE_SIZE, "%i\n", v) *)
FormatInt(v) == (IF v < 0 THEN <<"-">> \o FormatNat(-v) ELSE FormatNat(v)) \o <<"\n">>

-----------------------------------------------------------------------------
(* Time and the wake lock's timer *)
Min(a, b) == IF a < b THEN a ELSE b
Max(a, b) == IF a > b THEN a ELSE b

(* since_irq saturates one tick past the hold time *)
SinceCap == FPC_TTW_HOLD_TIME + TickMs

(* TickMs of time pass; the wake lock's timer releases the lock on expiry *)
Tick ==
    /\ fault = "none"
    /\ wl_remaining > 0 \/ since_irq < SinceCap
    /\ wl_remaining' = Max(0, wl_remaining - TickMs)
    /\ since_irq' = Min(SinceCap, since_irq + TickMs)
    /\ UNCHANGED <<probeVars, fault, screen_state, ignor_home_for_ESD, irqVars,
                   fbVars, workVars, homeVars, key_down>>

-----------------------------------------------------------------------------
(* Sensor interrupt: IRQF_TRIGGER_RISING | IRQF_ONESHOT, threaded handler *)

(* A rising edge on irq_gpio.  The line stays masked while the thread runs; *)
(* an edge raised meanwhile is latched, and further ones collapse into it.  *)
SensorEdge ==
    /\ fault = "none"
    /\ irq_requested
    /\ ~irq_latched
    /\ irq_latched' = TRUE
    /\ UNCHANGED <<probeVars, fault, screen_state, ignor_home_for_ESD, h_pc, h_ss,
                   h_wl, h_notes, h_emit, h_ret, wlVars, fbVars, workVars,
                   homeVars, key_down>>

(* IrqThreadWake without the serialisation of the IRQ thread: the handler  *)
(* is entered again while an invocation is in progress                     *)
IrqThreadWake_Reentrant ==
    /\ fault = "none"
    /\ irq_requested
    /\ irq_latched
    /\ irq_latched' = FALSE
    /\ h_pc' = "wake_lock"
    /\ h_ss' = -1
    /\ h_wl' = 0
    /\ h_notes' = 0
    /\ h_emit' = <<>>
    /\ h_ret' = "none"
    /\ UNCHANGED <<probeVars, fault, screen_state, ignor_home_for_ESD,
                   wlVars, fbVars, workVars, homeVars, key_down>>

(* The IRQ thread picks the latched edge up and enters fpc1020_irq_handler *)
IrqThreadWake ==
    /\ fault = "none"
    /\ irq_requested
    /\ irq_latched
    /\ h_pc = "idle"
    /\ irq_latched' = FALSE
    /\ h_pc' = "wake_lock"
    /\ h_ss' = -1
    /\ h_wl' = 0
    /\ h_notes' = 0
    /\ h_emit' = <<>>
    /\ h_ret' = "none"
    /\ UNCHANGED <<probeVars, fault, screen_state, ignor_home_for_ESD,
                   wlVars, fbVars, workVars, homeVars, key_down>>

(* HandlerWakeLock adding the hold time to what is left of the last one *)
HandlerWakeLock_Extend ==
    /\ fault = "none"
    /\ h_pc = "wake_lock"
    /\ wl_initialised
    /\ wl_remaining' = wl_remaining + FPC_TTW_HOLD_TIME
    /\ since_irq' = 0
    /\ h_wl' = FPC_TTW_HOLD_TIME
    /\ h_pc' = "notify"
    /\ UNCHANGED <<probeVars, fault, screen_state, ignor_home_for_ESD, irq_latched,
                   h_ss, h_notes, h_emit, h_ret, fbVars, workVars,
                   homeVars, key_down>>

(* wake_lock_timeout(&fpc1020->ttw_wl, msecs_to_jiffies(FPC_TTW_HOLD_TIME)): *)
(* the lock is held and its timer (re)armed to expire after the hold time    *)
HandlerWakeLock ==
    /\ fault = "none"
    /\ h_pc = "wake_lock"
    /\ wl_initialised
    /\ wl_remaining' = FPC_TTW_HOLD_TIME
    /\ since_irq' = 0
    /\ h_wl' = FPC_TTW_HOLD_TIME
    /\ h_pc' = "notify"
    /\ UNCHANGED <<probeVars, fault, screen_state, ignor_home_for_ESD, irq_latched,
                   h_ss, h_notes, h_emit, h_ret, fbVars, workVars,
                   homeVars, key_down>>

(* The same call on a wake lock wake_lock_init has not set up yet works on a *)
(* zeroed wakeup source: it either behaves as on an initialised one or the   *)
(* kernel faults in the timer code.                                          *)
HandlerWakeLockUninit ==
    /\ fault = "none"
    /\ h_pc = "wake_lock"
    /\ ~wl_initialised
    /\ \/ /\ wl_remaining' = FPC_TTW_HOLD_TIME
          /\ since_irq' = 0
          /\ h_wl' = FPC_TTW_HOLD_TIME
          /\ h_pc' = "notify"
          /\ UNCHANGED fault
       \/ /\ fault' = "oops"
          /\ UNCHANGED <<wl_remaining, since_irq, h_wl, h_pc>>
    /\ UNCHANGED <<probeVars, screen_state, ignor_home_for_ESD, irq_latched,
                   h_ss, h_notes, h_emit, h_ret, fbVars, workVars,
                   homeVars, key_down>>

(* HandlerNotify notifying only inside the screen-off branch *)
HandlerNotify_ScreenOffOnly ==
    /\ fault = "none"
    /\ h_pc = "notify"
    /\ h_notes' = IF screen_state = 0 THEN h_notes + 1 ELSE h_notes
    /\ h_pc' = "read"
    /\ UNCHANGED <<probeVars, fault, screen_state, ignor_home_for_ESD, irq_latched,
                   h_ss, h_wl, h_emit, h_ret, wlVars, fbVars,
                   workVars, homeVars, key_down>>

(* sysfs_notify(&dev->kobj, NULL, "irq"): wakes the pollers of the attribute *)
HandlerNotify ==
    /\ fault = "none"
    /\ h_pc = "notify"
    /\ h_notes' = h_notes + 1
    /\ h_pc' = "read"
    /\ UNCHANGED <<probeVars, fault, screen_state, ignor_home_for_ESD, irq_latched,
                   h_ss, h_wl, h_emit, h_ret, wlVars, fbVars,
                   workVars, homeVars, key_down>>

(* HandlerRead with the test inverted: if (fpc1020->screen_state) *)
HandlerRead_Inverted ==
    /\ fault = "none"
    /\ h_pc = "read"
    /\ h_ss' = screen_state
    /\ h_pc' = IF screen_state # 0 THEN "press" ELSE "return"
    /\ UNCHANGED <<probeVars, fault, screen_state, ignor_home_for_ESD, irq_latched,
                   h_wl, h_notes, h_emit, h_ret, wlVars, fbVars,
                   workVars, homeVars, key_down>>

(* if (!fpc1020->screen_state) *)
HandlerRead ==
    /\ fault = "none"
    /\ h_pc = "read"
    /\ h_ss' = screen_state
    /\ h_pc' = IF screen_state = 0 THEN "press" ELSE "return"
    /\ UNCHANGED <<probeVars, fault, screen_state, ignor_home_for_ESD, irq_latched,
                   h_wl, h_notes, h_emit, h_ret, wlVars, fbVars,
                   workVars, homeVars, key_down>>

(* One input call of the handler: pc from, call ev, pc to *)
HandlerInput(from, ev, to) ==
    /\ fault = "none"
    /\ h_pc = from
    /\ key_down' = InputEvent(key_down, ev)
    /\ h_emit' = Append(h_emit, ev)
    /\ h_pc' = to
    /\ UNCHANGED <<probeVars, fault, screen_state, ignor_home_for_ESD, irq_latched,
                   h_ss, h_wl, h_notes, h_ret, wlVars, fbVars,
                   workVars, homeVars>>

(* input_report_key(KEY_FINGERPRINT, 1); input_sync(); *)
(* input_report_key(KEY_FINGERPRINT, 0); input_sync(); *)
HandlerPress == HandlerInput("press", ReportKey(KEY_FINGERPRINT, 1), "sync1")
HandlerSync1 == HandlerInput("sync1", InputSync, "release")
HandlerRelease == HandlerInput("release", ReportKey(KEY_FINGERPRINT, 0), "sync2")
HandlerSync2 == HandlerInput("sync2", InputSync, "return")

(* return IRQ_HANDLED; the line is unmasked again *)
HandlerReturn ==
    /\ fault = "none"
    /\ h_pc = "return"
    /\ h_ret' = IRQ_HANDLED
    /\ h_pc' = "idle"
    /\ UNCHANGED <<probeVars, fault, screen_state, ignor_home_for_ESD, irq_latched,
                   h_ss, h_wl, h_notes, h_emit, wlVars, fbVars,
                   workVars, homeVars, key_down>>

-----------------------------------------------------------------------------
(* Framebuffer notifier and pm_work *)

(* FbNotifierCallback taking every blank value but UNBLANK for a power down *)
FbNotifierCallback_AnyBlankOff(event, blank) ==
    /\ fault = "none"
    /\ fb_registered
    /\ ~data_freed
    /\ fb_pc = "idle"
    /\ IF event # FB_EARLY_EVENT_BLANK
         THEN /\ fb_ret' = 0
              /\ UNCHANGED <<screen_state, fb_pc, ss_notified>>
         ELSE /\ screen_state' = IF blank = FB_BLANK_UNBLANK THEN 1 ELSE 0
              /\ ss_notified' = "stale"
              /\ fb_pc' = "queue_work"
              /\ UNCHANGED fb_ret
    /\ UNCHANGED <<probeVars, fault, ignor_home_for_ESD, irqVars, wlVars,
                   work_pending, w_pc, w_ss, procs, homeVars, key_down>>

(* fb_notifier_callback(self, event, data) up to its first return or to the *)
(* queue_work call.  The notifier chain runs one callback at a time.        *)
FbNotifierCallback(event, blank) ==
    /\ fault = "none"
    /\ fb_registered
    /\ ~data_freed
    /\ fb_pc = "idle"
    /\ IF event # FB_EARLY_EVENT_BLANK
         THEN /\ fb_ret' = 0
              /\ UNCHANGED <<screen_state, fb_pc, ss_notified>>
         ELSE IF blank = FB_BLANK_UNBLANK
         THEN /\ screen_state' = 1
              /\ ss_notified' = "stale"
              /\ fb_pc' = "queue_work"
              /\ UNCHANGED fb_ret
         ELSE IF blank = FB_BLANK_POWERDOWN
         THEN /\ screen_state' = 0
              /\ ss_notified' = "stale"
              /\ fb_pc' = "queue_work"
              /\ UNCHANGED fb_ret
         ELSE /\ fb_ret' = 0
              /\ UNCHANGED <<screen_state, fb_pc, ss_notified>>
    /\ UNCHANGED <<probeVars, fault, ignor_home_for_ESD, irqVars, wlVars,
                   work_pending, w_pc, w_ss, procs, homeVars, key_down>>

(* queue_work(system_highpri_wq, &fpc1020->pm_work); return 0;  *)
(* queue_work does nothing when the work is already pending.    *)
FbQueueWork ==
    /\ fault = "none"
    /\ fb_pc = "queue_work"
    /\ work_pending' = TRUE
    /\ fb_pc' = "idle"
    /\ fb_ret' = 0
    /\ UNCHANGED <<probeVars, fault, screen_state, ignor_home_for_ESD, irqVars,
                   wlVars, w_pc, w_ss, procs, ss_notified, homeVars,
                   key_down>>

(* The workqueue takes pm_work: it clears PENDING and calls the work        *)
(* function; one work item never runs on two workers at once.               *)
WorkStart ==
    /\ fault = "none"
    /\ ~data_freed
    /\ work_pending
    /\ w_pc = "idle"
    /\ work_pending' = FALSE
    /\ w_pc' = "read"
    /\ UNCHANGED <<probeVars, fault, screen_state, ignor_home_for_ESD, irqVars,
                   wlVars, fbVars, w_ss, procs, ss_notified, homeVars,
                   key_down>>

(* if (fpc1020->screen_state) *)
WorkRead ==
    /\ fault = "none"
    /\ w_pc = "read"
    /\ ~data_freed
    /\ w_ss' = screen_state
    /\ w_pc' = "set_nice"
    /\ UNCHANGED <<probeVars, fault, screen_state, ignor_home_for_ESD, irqVars,
                   wlVars, fbVars, work_pending, procs, ss_notified, homeVars,
                   key_down>>

(* for_each_process(p) if (!memcmp(p->comm, "fingerprintd", 13)): the index *)
(* of the first such task, 0 when there is none                             *)
FindFingerprintd(tasks) ==
    LET hits == {i \in 1..Len(tasks) : MemCmp(tasks[i].comm, S_fingerprintd, 13) = 0}
    IN IF hits = {} THEN 0 ELSE CHOOSE i \in hits : \A j \in hits : i <= j

(* set_fingerprintd_nice(nice): set_user_nice on that task, then break *)
SetFingerprintdNice(tasks, nice) ==
    LET i == FindFingerprintd(tasks)
    IN IF i = 0 THEN tasks ELSE [tasks EXCEPT ![i].nice = nice]

(* set_fingerprintd_nice(0) or set_fingerprintd_nice(MIN_NICE) *)
WorkSetNice ==
    /\ fault = "none"
    /\ w_pc = "set_nice"
    /\ procs' = SetFingerprintdNice(procs, IF w_ss # 0 THEN 0 ELSE MIN_NICE)
    /\ w_pc' = "notify"
    /\ UNCHANGED <<probeVars, fault, screen_state, ignor_home_for_ESD, irqVars,
                   wlVars, fbVars, work_pending, w_ss, ss_notified, homeVars,
                   key_down>>

(* sysfs_notify(&dev->kobj, NULL, "screen_state"); the work function returns *)
WorkNotify ==
    /\ fault = "none"
    /\ w_pc = "notify"
    /\ ~data_freed
    /\ ss_notified' = "fresh"
    /\ w_pc' = "idle"
    /\ UNCHANGED <<probeVars, fault, screen_state, ignor_home_for_ESD, irqVars,
                   wlVars, fbVars, work_pending, w_ss, procs, homeVars,
                   key_down>>

-----------------------------------------------------------------------------
(* sysfs attributes and the module parameter *)

(* ReportHomeCalls comparing the whole buffer (strcmp) instead of a prefix *)
ReportHomeCalls_Exact(buf) ==
    IF buf = S_down
    THEN <<ReportKey(KEY_HOME, 1), InputSync>>
    ELSE IF buf = S_up
    THEN <<ReportKey(KEY_HOME, 0), InputSync>>
    ELSE IF buf = S_timeout
    THEN <<ReportKey(KEY_F2, 1), InputSync, ReportKey(KEY_F2, 0), InputSync>>
    ELSE <<>>

(* The input calls report_home_set makes for buf, in order *)
ReportHomeCalls(buf) ==
    IF StrNCmp(buf, S_down, Len(S_down)) = 0
    THEN <<ReportKey(KEY_HOME, 1), InputSync>>
    ELSE IF StrNCmp(buf, S_up, Len(S_up)) = 0
    THEN <<ReportKey(KEY_HOME, 0), InputSync>>
    ELSE IF StrNCmp(buf, S_timeout, Len(S_timeout)) = 0
    THEN <<ReportKey(KEY_F2, 1), InputSync, ReportKey(KEY_F2, 0), InputSync>>
    ELSE <<>>

(* The value report_home_set returns for buf and count *)
ReportHomeResult(ignor, buf, count) ==
    IF ignor # 0 THEN -EINVAL
    ELSE IF ReportHomeCalls(buf) = <<>> THEN -EINVAL
    ELSE count

(* report_home_set(dev, attr, buf, count), count being the bytes written *)
ReportHomeSet(buf) ==
    /\ fault = "none"
    /\ sysfs_created
    /\ r_ret' = ReportHomeResult(ignor_home_for_ESD, buf, Len(buf))
    /\ r_emit' = IF ignor_home_for_ESD # 0 THEN <<>> ELSE ReportHomeCalls(buf)
    /\ key_down' = InputEvents(key_down, r_emit')
    /\ UNCHANGED <<probeVars, fault, screen_state, ignor_home_for_ESD, irqVars,
                   wlVars, fbVars, workVars>>

(* screen_state_get(device, attribute, buffer): what a read of the         *)
(* attribute puts in buffer; the read changes nothing                       *)
ScreenStateGet == FormatInt(screen_state)

(* module_param(ignor_home_for_ESD, uint, S_IRUGO | S_IWUSR): a write to it *)
ModuleParamSet(v) ==
    /\ fault = "none"
    /\ v # ignor_home_for_ESD
    /\ ignor_home_for_ESD' = v
    /\ UNCHANGED <<probeVars, fault, screen_state, irqVars, wlVars, fbVars,
                   workVars, homeVars, key_down>>

-----------------------------------------------------------------------------
(* Inputs *)
HomeBufs == { S_up, S_timeout, <<"d", "o", "w", "n", "\n">>,
              <<"d", "o", "w">>, <<"x", "u", "p">>, <<>> }
ParamValues == {0, 2}

Task(comm, nice) == [comm |-> comm, nice |-> nice]
S_init == <<"i", "n", "i", "t">>
S_fingerprintd2 == S_fingerprintd \o <<"2">>
TaskLists == { <<Task(S_init, 0)>>,
               <<Task(S_fingerprintd2, 0), Task(S_fingerprintd, 0),
                 Task(S_fingerprintd, 0)>> }

-----------------------------------------------------------------------------
(* The state fpc1020_probe leaves when it returns 0: the input device is    *)
(* registered, the IRQ requested, the wake lock initialised, the attribute  *)
(* group created and screen_state 1; fb_register_client may have failed,    *)
(* which probe only logs.                                                   *)
Init ==
    /\ probe_pc = "done"
    /\ rc = 0
    /\ input_registered = TRUE
    /\ fb_registered \in BOOLEAN
    /\ irq_requested = TRUE
    /\ wl_initialised = TRUE
    /\ sysfs_created = TRUE
    /\ data_freed = FALSE
    /\ fault = "none"
    /\ screen_state = 1
    /\ ignor_home_for_ESD = 0
    /\ irq_latched = FALSE
    /\ h_pc = "idle"
    /\ h_ss = -1
    /\ h_wl = 0
    /\ h_notes = 0
    /\ h_emit = <<>>
    /\ h_ret = "none"
    /\ wl_remaining = 0
    /\ since_irq = SinceCap
    /\ fb_pc = "idle"
    /\ fb_ret = 0
    /\ work_pending = FALSE
    /\ w_pc = "idle"
    /\ w_ss = -1
    /\ procs \in TaskLists
    /\ ss_notified = "none"
    /\ r_ret = 0
    /\ r_emit = <<>>
    /\ key_down = {}

Next ==
    \/ SensorEdge
    \/ IrqThreadWake
    \/ HandlerWakeLock
    \/ HandlerNotify
    \/ HandlerRead
    \/ HandlerPress
    \/ HandlerSync1
    \/ HandlerRelease
    \/ HandlerSync2
    \/ HandlerReturn
    \/ \E event \in FbEvents, blank \in FbBlanks : FbNotifierCallback(event, blank)
    \/ FbQueueWork
    \/ WorkStart
    \/ WorkRead
    \/ WorkSetNice
    \/ WorkNotify
    \/ \E buf \in HomeBufs : ReportHomeSet(buf)
    \/ \E v \in ParamValues : ModuleParamSet(v)

Spec == Init /\ [][Next]_vars

(* The driver with time passing: the wake lock's timer runs whatever the   *)
(* driver does                                                              *)
NextTimed ==
    \/ Tick
    \/ Next

SpecTimed == Init /\ [][NextTimed]_vars /\ WF_vars(Tick)

-----------------------------------------------------------------------------
(* fpc1020_probe, step by step, with the interrupt handler, the notifier    *)
(* callback and pm_work live as soon as probe has registered them           *)

(* Errors the kernel services probe calls may return *)
ProbeErrs == {-ENOMEM, -EINVAL}

runVars == <<fault, ignor_home_for_ESD, irqVars, wlVars, fbVars, workVars,
             homeVars, key_down>>

(* One step of probe that registers nothing: from pc at, on success to pc   *)
(* ok with rc 0, on failure goto exit with rc one of errs                   *)
ProbeCheck(at, ok, errs) ==
    /\ fault = "none"
    /\ probe_pc = at
    /\ \/ /\ rc' = 0
          /\ probe_pc' = ok
       \/ /\ rc' \in errs
          /\ probe_pc' = "exit"
    /\ UNCHANGED <<input_registered, fb_registered, irq_requested, wl_initialised,
                   sysfs_created, data_freed, screen_state, runVars>>

(* fpc1020 = devm_kzalloc(dev, sizeof fpc1020_data, GFP_KERNEL) *)
ProbeAlloc == ProbeCheck("alloc", "of_node", {-ENOMEM})
(* if (!np) *)
ProbeOfNode == ProbeCheck("of_node", "irq_gpio", {-EINVAL})
(* fpc1020_request_named_gpio(fpc1020, "fpc,irq-gpio", &fpc1020->irq_gpio) *)
ProbeIrqGpio == ProbeCheck("irq_gpio", "gpio_direction", ProbeErrs)
(* gpio_direction_input(fpc1020->irq_gpio) *)
ProbeGpioDirection == ProbeCheck("gpio_direction", "id_gpios", ProbeErrs)

(* The three id gpios: rc takes the result of each request and is not tested *)
ProbeIdGpios ==
    /\ fault = "none"
    /\ probe_pc = "id_gpios"
    /\ rc' \in {0} \cup ProbeErrs
    /\ probe_pc' = "input_init"
    /\ UNCHANGED <<input_registered, fb_registered, irq_requested, wl_initialised,
                   sysfs_created, data_freed, screen_state, runVars>>

(* rc = fpc1020_input_init(fpc1020); if (rc) goto exit;  On failure the    *)
(* device was not allocated, or was freed again by fpc1020_input_init.     *)
ProbeInputInit ==
    /\ fault = "none"
    /\ probe_pc = "input_init"
    /\ \/ /\ rc' = 0
          /\ input_registered' = TRUE
          /\ probe_pc' = "fb_register"
       \/ /\ rc' \in ProbeErrs
          /\ probe_pc' = "exit"
          /\ UNCHANGED input_registered
    /\ UNCHANGED <<fb_registered, irq_requested, wl_initialised, sysfs_created,
                   data_freed, screen_state, runVars>>

(* INIT_WORK(&fpc1020->pm_work, ...); rc = fb_register_client(&fb_notif);  *)
(* a failure is logged and probe goes on                                   *)
ProbeFbRegister ==
    /\ fault = "none"
    /\ probe_pc = "fb_register"
    /\ rc' \in {0} \cup ProbeErrs
    /\ fb_registered' = (rc' = 0)
    /\ probe_pc' = "screen_state"
    /\ UNCHANGED <<input_registered, irq_requested, wl_initialised, sysfs_created,
                   data_freed, screen_state, runVars>>

(* fpc1020->screen_state = 1; *)
ProbeScreenState ==
    /\ fault = "none"
    /\ probe_pc = "screen_state"
    /\ screen_state' = 1
    /\ probe_pc' = "request_irq"
    /\ UNCHANGED <<rc, input_registered, fb_registered, irq_requested,
                   wl_initialised, sysfs_created, data_freed, runVars>>

(* rc = devm_request_threaded_irq(dev, gpio_to_irq(irq_gpio), NULL,        *)
(*                                fpc1020_irq_handler, irqf, ...)          *)
ProbeRequestIrq ==
    /\ fault = "none"
    /\ probe_pc = "request_irq"
    /\ \/ /\ rc' = 0
          /\ irq_requested' = TRUE
          /\ probe_pc' = "wake_lock_init"
       \/ /\ rc' \in ProbeErrs
          /\ probe_pc' = "exit"
          /\ UNCHANGED irq_requested
    /\ UNCHANGED <<input_registered, fb_registered, wl_initialised, sysfs_created,
                   data_freed, screen_state, runVars>>

(* enable_irq_wake(...); wake_lock_init(&fpc1020->ttw_wl, ...): the wakeup *)
(* source is set up afresh, not active                                     *)
ProbeWakeLockInit ==
    /\ fault = "none"
    /\ probe_pc = "wake_lock_init"
    /\ wl_initialised' = TRUE
    /\ wl_remaining' = 0
    /\ probe_pc' = "sysfs_create_group"
    /\ UNCHANGED <<rc, input_registered, fb_registered, irq_requested,
                   sysfs_created, data_freed, screen_state, fault,
                   ignor_home_for_ESD, irqVars, since_irq, fbVars, workVars,
                   homeVars, key_down>>

(* rc = sysfs_create_group(&dev->kobj, &attribute_group) *)
ProbeSysfsCreateGroup ==
    /\ fault = "none"
    /\ probe_pc = "sysfs_create_group"
    /\ \/ /\ rc' = 0
          /\ sysfs_created' = TRUE
       \/ /\ rc' \in ProbeErrs
          /\ UNCHANGED sysfs_created
    /\ probe_pc' = "exit"
    /\ UNCHANGED <<input_registered, fb_registered, irq_requested, wl_initialised,
                   data_freed, screen_state, runVars>>

(* exit: return rc; *)
ProbeExit ==
    /\ fault = "none"
    /\ probe_pc = "exit"
    /\ probe_pc' = "done"
    /\ UNCHANGED <<rc, input_registered, fb_registered, irq_requested,
                   wl_initialised, sysfs_created, data_freed, screen_state,
                   runVars>>

(* After a failed probe the driver core releases the device's managed      *)
(* resources: the IRQ (free_irq waits for a running handler) and the       *)
(* fpc1020_data allocation.                                                *)
DevresRelease ==
    /\ fault = "none"
    /\ probe_pc = "done"
    /\ rc # 0
    /\ h_pc = "idle"
    /\ probe_pc' = "released"
    /\ irq_requested' = FALSE
    /\ irq_latched' = FALSE
    /\ data_freed' = TRUE
    /\ UNCHANGED <<rc, input_registered, fb_registered, wl_initialised,
                   sysfs_created, screen_state, fault, ignor_home_for_ESD, h_pc,
                   h_ss, h_wl, h_notes, h_emit, h_ret, wlVars, fbVars, workVars,
                   homeVars, key_down>>

(* fb_notifier_callback still on the notifier chain after fpc1020_data was *)
(* released: a blank event makes it write screen_state in freed memory     *)
FbNotifierCallbackFreed(event, blank) ==
    /\ fault = "none"
    /\ fb_registered
    /\ data_freed
    /\ event = FB_EARLY_EVENT_BLANK
    /\ blank \in {FB_BLANK_UNBLANK, FB_BLANK_POWERDOWN}
    /\ fault' = "use_after_free"
    /\ UNCHANGED <<probeVars, screen_state, ignor_home_for_ESD, irqVars, wlVars,
                   fbVars, workVars, homeVars, key_down>>

(* pm_work, queued before fpc1020_data was released, runs on freed memory *)
WorkFreed ==
    /\ fault = "none"
    /\ data_freed
    /\ work_pending \/ w_pc \in {"read", "notify"}
    /\ fault' = "use_after_free"
    /\ UNCHANGED <<probeVars, screen_state, ignor_home_for_ESD, irqVars, wlVars,
                   fbVars, workVars, homeVars, key_down>>

(* devm_kzalloc hands probe a zeroed fpc1020_data; nothing is registered *)
InitProbe ==
    /\ probe_pc = "alloc"
    /\ rc = 0
    /\ input_registered = FALSE
    /\ fb_registered = FALSE
    /\ irq_requested = FALSE
    /\ wl_initialised = FALSE
    /\ sysfs_created = FALSE
    /\ data_freed = FALSE
    /\ fault = "none"
    /\ screen_state = 0
    /\ ignor_home_for_ESD = 0
    /\ irq_latched = FALSE
    /\ h_pc = "idle"
    /\ h_ss = -1
    /\ h_wl = 0
    /\ h_notes = 0
    /\ h_emit = <<>>
    /\ h_ret = "none"
    /\ wl_remaining = 0
    /\ since_irq = SinceCap
    /\ fb_pc = "idle"
    /\ fb_ret = 0
    /\ work_pending = FALSE
    /\ w_pc = "idle"
    /\ w_ss = -1
    /\ procs \in TaskLists
    /\ ss_notified = "none"
    /\ r_ret = 0
    /\ r_emit = <<>>
    /\ key_down = {}

NextProbe ==
    \/ ProbeAlloc
    \/ ProbeOfNode
    \/ ProbeIrqGpio
    \/ ProbeGpioDirection
    \/ ProbeIdGpios
    \/ ProbeInputInit
    \/ ProbeFbRegister
    \/ ProbeScreenState
    \/ ProbeRequestIrq
    \/ ProbeWakeLockInit
    \/ ProbeSysfsCreateGroup
    \/ ProbeExit
    \/ DevresRelease
    \/ HandlerWakeLockUninit
    \/ \E event \in FbEvents, blank \in FbBlanks : FbNotifierCallbackFreed(event, blank)
    \/ WorkFreed
    \/ SensorEdge
    \/ IrqThreadWake
    \/ HandlerWakeLock
    \/ HandlerNotify
    \/ HandlerRead
    \/ HandlerPress
    \/ HandlerSync1
    \/ HandlerRelease
    \/ HandlerSync2
    \/ HandlerReturn
    \/ \E event \in FbEvents, blank \in FbBlanks : FbNotifierCallback(event, blank)
    \/ FbQueueWork
    \/ WorkStart
    \/ WorkRead
    \/ WorkSetNice
    \/ WorkNotify

SpecProbe == InitProbe /\ [][NextProbe]_vars

-----------------------------------------------------------------------------
(* Properties *)

Last(seq) == seq[Len(seq)]

(* The handler has taken the wake lock / delivered its notification / run   *)
(* through its body in the invocation in progress or last completed         *)
PastWakeLock == {"notify", "read", "press", "sync1", "release", "sync2", "return"}
PastNotify == {"read", "press", "sync1", "release", "sync2", "return"}
Completed == h_pc = "idle" /\ h_ret = IRQ_HANDLED

(* The calls of one KEY_FINGERPRINT press/release pair *)
FingerprintPair == <<ReportKey(KEY_FINGERPRINT, 1), InputSync,
                     ReportKey(KEY_FINGERPRINT, 0), InputSync>>

(* C1: every invocation of fpc1020_irq_handler, with the screen on or off,  *)
(* takes ttw_wl with a timeout of FPC_TTW_HOLD_TIME, notifies the 'irq'     *)
(* attribute exactly once and returns IRQ_HANDLED.                          *)
C1_HandlerContract ==
    /\ [](h_pc \in PastWakeLock \/ Completed => h_wl = FPC_TTW_HOLD_TIME)
    /\ [](h_pc \in PastNotify \/ Completed => h_notes = 1)
    /\ [][h_pc = "wake_lock" /\ h_pc' # "wake_lock"
            => h_pc' = "notify" /\ wl_remaining' = FPC_TTW_HOLD_TIME]_vars
    /\ [][h_pc = "return" /\ h_pc' # "return"
            => h_pc' = "idle" /\ h_ret' = IRQ_HANDLED]_vars
    /\ [][h_pc # "idle" /\ h_pc' = "idle" => h_pc = "return"]_vars

(* An invocation that found the screen off has completed *)
C1_Witness == Completed /\ h_ss = 0 /\ h_notes = 1 /\ h_wl = FPC_TTW_HOLD_TIME

(* C2: each handled edge yields exactly one 'irq' notification and at most  *)
(* one KEY_FINGERPRINT press/release pair, the handler is entered only when *)
(* no invocation is in progress, and KEY_FINGERPRINT is pressed only while  *)
(* released and released only while pressed, under any interleaving with    *)
(* notifier callbacks and sysfs writes.                                     *)
C2_OneEventPerEdge ==
    /\ [](Completed => h_notes = 1 /\ h_emit \in {<<>>, FingerprintPair})
    /\ [][h_pc' = "wake_lock" /\ h_pc # "wake_lock" => h_pc = "idle"]_vars
    /\ [][Len(h_emit') > Len(h_emit) /\ Last(h_emit') = ReportKey(KEY_FINGERPRINT, 1)
            => KEY_FINGERPRINT \notin key_down]_vars
    /\ [][Len(h_emit') > Len(h_emit) /\ Last(h_emit') = ReportKey(KEY_FINGERPRINT, 0)
            => KEY_FINGERPRINT \in key_down]_vars
    /\ [](h_pc = "idle" => KEY_FINGERPRINT \notin key_down)

(* A second edge is latched while the handler holds KEY_FINGERPRINT pressed *)
(* and KEY_HOME is down from a sysfs write                                  *)
C2_Witness ==
    /\ irq_latched
    /\ h_pc = "release"
    /\ key_down = {KEY_FINGERPRINT, KEY_HOME}
    /\ fb_pc = "queue_work"

(* C3: while ttw_wl is held the last wake_lock_timeout call is less than    *)
(* FPC_TTW_HOLD_TIME old and the lock has no more than the rest of that     *)
(* hold time left; an interrupt while the lock is held sets the time left   *)
(* to FPC_TTW_HOLD_TIME; once no further interrupt arrives the lock is      *)
(* released for good.                                                       *)
C3_BoundedHold ==
    /\ [](wl_remaining > 0 =>
            /\ since_irq < FPC_TTW_HOLD_TIME
            /\ wl_remaining <= FPC_TTW_HOLD_TIME - since_irq)
    /\ [][h_pc = "wake_lock" /\ h_pc' = "notify"
            => wl_remaining' = FPC_TTW_HOLD_TIME /\ since_irq' = 0]_vars
    /\ (<>[](h_pc # "wake_lock") => <>[](wl_remaining = 0))

(* A further interrupt is about to take the lock while part of the hold     *)
(* time of the last one is left                                             *)
C3_Witness ==
    /\ h_pc = "wake_lock"
    /\ wl_remaining > 0
    /\ wl_remaining < FPC_TTW_HOLD_TIME

(* C4: every interrupt fpc1020_irq_handler handles produces an input event  *)
(* on the input device.                                                     *)
C4_EveryIrqReportsInput == Completed => h_emit # <<>>

(* pm_work and the notifier callback are at rest *)
Quiescent == fb_pc = "idle" /\ ~work_pending /\ w_pc = "idle"

(* The task named fingerprintd that for_each_process meets first *)
IsFingerprintd(i) ==
    /\ i \in 1..Len(procs)
    /\ procs[i].comm = S_fingerprintd
    /\ \A j \in 1..(i - 1) : procs[j].comm # S_fingerprintd

(* C5: after blank/unblank events, once probe has returned 0 and pm_work    *)
(* has run to completion with no newer event pending, fingerprintd (if      *)
(* there is one) has nice 0 when screen_state is 1 and MIN_NICE when it is  *)
(* 0, and 'screen_state' has been notified since the last change.           *)
C5_PriorityFollowsScreen ==
    (probe_pc = "done" /\ rc = 0 /\ Quiescent /\ ss_notified # "none") =>
        /\ ss_notified = "fresh"
        /\ \A i \in 1..Len(procs) :
              IsFingerprintd(i) =>
                  procs[i].nice = (IF screen_state = 1 THEN 0 ELSE MIN_NICE)

FbCallbackEffect(event, blank) ==
    IF event = FB_EARLY_EVENT_BLANK /\ blank = FB_BLANK_UNBLANK
    THEN screen_state' = 1 /\ fb_pc' = "queue_work"
    ELSE IF event = FB_EARLY_EVENT_BLANK /\ blank = FB_BLANK_POWERDOWN
    THEN screen_state' = 0 /\ fb_pc' = "queue_work"
    ELSE /\ screen_state' = screen_state
         /\ fb_pc' = "idle"
         /\ work_pending' = work_pending
         /\ fb_ret' = 0

(* atoi of the digits a buffer starts with *)
DigitValue(c) ==
    CASE c = "0" -> 0 [] c = "1" -> 1 [] c = "2" -> 2 [] c = "3" -> 3
      [] c = "4" -> 4 [] c = "5" -> 5 [] c = "6" -> 6 [] c = "7" -> 7
      [] c = "8" -> 8 [] c = "9" -> 9 [] OTHER -> -1

RECURSIVE ParseNat(_, _)
ParseNat(buf, acc) ==
    IF buf = <<>> \/ DigitValue(Head(buf)) < 0 THEN acc
    ELSE ParseNat(Tail(buf), 10 * acc + DigitValue(Head(buf)))

(* C7: screen_state is 1 or 0; fb_notifier_callback sets it to 1 on         *)
(* FB_EARLY_EVENT_BLANK with FB_BLANK_UNBLANK and to 0 with                 *)
(* FB_BLANK_POWERDOWN, queuing pm_work in both cases, and otherwise changes *)
(* nothing and queues no work; it returns 0; nothing else modifies          *)
(* screen_state; a read of the attribute gives the current value.           *)
C7_ScreenStateTracksBlank ==
    /\ [](screen_state \in {0, 1})
    /\ [][\A event \in FbEvents, blank \in FbBlanks :
            FbNotifierCallback(event, blank) => FbCallbackEffect(event, blank)]_vars
    /\ [][fb_pc = "queue_work" /\ fb_pc' # "queue_work"
            => work_pending' /\ fb_pc' = "idle" /\ fb_ret' = 0]_vars
    /\ [][work_pending' /\ ~work_pending => fb_pc = "queue_work"]_vars
    /\ [][screen_state' # screen_state => fb_pc = "idle" /\ fb_pc' = "queue_work"]_vars
    /\ [](fb_ret = 0)
    /\ [](ScreenStateGet = <<DigitChar(screen_state), "\n">>
            /\ ParseNat(ScreenStateGet, 0) = screen_state)

(* The display powered down: screen_state is 0, pm_work queued, and a read  *)
(* of the attribute gives "0\n"                                             *)
C7_Witness ==
    /\ screen_state = 0
    /\ work_pending
    /\ fb_pc = "idle"
    /\ ScreenStateGet = <<"0", "\n">>

(* buf begins with the characters of lit *)
BeginsWith(buf, lit) == Len(buf) >= Len(lit) /\ SubSeq(buf, 1, Len(lit)) = lit

(* What the claim says a write of buf to report_home does *)
ReportHomeEffect(buf) ==
    /\ screen_state' = screen_state
    /\ (KEY_FINGERPRINT \in key_down') = (KEY_FINGERPRINT \in key_down)
    /\ \A n \in 1..Len(r_emit') : r_emit'[n].code # KEY_FINGERPRINT
    /\ IF ignor_home_for_ESD # 0
       THEN r_ret' = -EINVAL /\ r_emit' = <<>> /\ key_down' = key_down
       ELSE IF BeginsWith(buf, S_down)
       THEN /\ r_ret' = Len(buf)
            /\ r_emit' = <<ReportKey(KEY_HOME, 1), InputSync>>
            /\ key_down' = key_down \cup {KEY_HOME}
       ELSE IF BeginsWith(buf, S_up)
       THEN /\ r_ret' = Len(buf)
            /\ r_emit' = <<ReportKey(KEY_HOME, 0), InputSync>>
            /\ key_down' = key_down \ {KEY_HOME}
       ELSE IF BeginsWith(buf, S_timeout)
       THEN /\ r_ret' = Len(buf)
            /\ r_emit' = <<ReportKey(KEY_F2, 1), InputSync,
                           ReportKey(KEY_F2, 0), InputSync>>
            /\ key_down' = key_down
       ELSE r_ret' = -EINVAL /\ r_emit' = <<>> /\ key_down' = key_down

(* C8: report_home_set returns -EINVAL and reports nothing when             *)
(* ignor_home_for_ESD is non-zero; otherwise "down..." reports KEY_HOME     *)
(* press and sync, "up..." KEY_HOME release and sync, "timeout..." KEY_F2   *)
(* press, sync, release, sync, each returning count, and any other input    *)
(* returns -EINVAL and reports nothing; it never reports KEY_FINGERPRINT    *)
(* and never changes screen_state.                                          *)
C8_ReportHome ==
    [][\A buf \in HomeBufs : ReportHomeSet(buf) => ReportHomeEffect(buf)]_vars

(* "down\n" was written with the parameter 0 while the screen was off: the  *)
(* write returned 5 and KEY_HOME is down                                    *)
C8_Witness ==
    /\ r_ret = 5
    /\ r_emit = <<ReportKey(KEY_HOME, 1), InputSync>>
    /\ KEY_HOME \in key_down
    /\ screen_state = 0

(* C9: whenever the sensor IRQ is requested, and so the handler may run,    *)
(* the wake lock is initialised, the attribute group created and the input  *)
(* device registered; no invocation works on an uninitialised wake lock.    *)
C9_HandlerAfterSetup ==
    /\ irq_requested => wl_initialised /\ sysfs_created /\ input_registered
    /\ h_pc # "idle" => wl_initialised /\ sysfs_created
    /\ fault # "oops"

(* C10: when probe returns a non-zero rc nothing it registered remains      *)
(* registered: the input device is gone and the notifier client is off the  *)
(* chain, so no later event runs the callback on released fpc1020_data.     *)
C10_FailedProbeUnregisters ==
    /\ (probe_pc \in {"done", "released"} /\ rc # 0)
          => ~input_registered /\ ~fb_registered
    /\ fault # "use_after_free"

====
